---- MODULE Spec2Model ----
(***************************************************************************)
(* The form fields of the component set (Input, Textarea, Select,          *)
(* Multiselect) as one state machine: one mounted field instance, its      *)
(* owner (the parent holding the v-model value) and the fetch helper.      *)
(*                                                                         *)
(* Scheduling.  A handler, the watchers it triggers and the $nextTick      *)
(* callbacks those watchers queue all run before the browser delivers the  *)
(* next user event or network response, so each action below is a handler  *)
(* together with the watcher callbacks it causes.  What does suspend is    *)
(* `await apiCall(...)`: a fetch is issued in one action and completes in  *)
(* another.  The owner binds the field with v-model, so an emitted         *)
(* update:modelValue is applied to modelValue in the emitting step.        *)
(*                                                                         *)
(* Specifications.  Spec: a field without the add dialog.  SpecAdd: a      *)
(* Multiselect with the add-new-option dialog.  SpecCalls: Spec plus a     *)
(* call of acceptEdit through the instance.  SpecToast: the Toaster.       *)
(* SpecStorage: the LocalStorage component with its Toaster.               *)
(***************************************************************************)
EXTENDS Integers, Sequences, FiniteSets, TLC

VARIABLES
    props,        \* the props fixed at construction (kind, readOnly, ...)
    mounted,      \* the mounted hook has run and the field is on the page
    unmounted,    \* the field was removed from the page
    modelValue,   \* prop modelValue, owned by the parent
    isEditing,    \* data.isEditing
    tmpVal,       \* data.tmpVal, the draft
    aliased,      \* tmpVal and modelValue are the same array object
    watchArmed,   \* the modelValue watcher is still registered
    options,      \* data.options
    isLoading,    \* data.isLoading
    filterValue,  \* data.filterValue
    fetches,      \* the apiCall requests issued so far, in issue order
    received,     \* the answer apiCall returned in the last step, if any
    showAddDialog,     \* data.showAddDialog: the entry dialog is open
    addInputValue,     \* data.addInputValue: the text typed into it
    showCreateDialog,  \* data.showCreateDialog: a creation is in progress
    remount,           \* data.remount: the key of the editable branch
    storage,           \* LocalStorage: the localStorage entry of the route
    storedValue,       \* LocalStorage: prop storedValue, owned by the parent
    showLoadDialog,    \* LocalStorage: data.showLoadDialog
    called,            \* Toaster: the arguments of the toast call of the last step
    notifications,     \* Toaster: what the last step added to the toast service
    toasts,       \* the summaries of the Toaster.toast calls of the last step
    emitted,      \* payloads of the update:* events of the last step
    lastOp        \* the handler that ran last

vars == <<props, mounted, unmounted, modelValue, isEditing, tmpVal, aliased, watchArmed,
          options, isLoading, filterValue, fetches, received, showAddDialog,
          addInputValue, showCreateDialog, remount, storage, storedValue,
          showLoadDialog, called, notifications, toasts, emitted, lastOp>>

\* The state of the add-new-option dialog.
dialog == <<showAddDialog, addInputValue, showCreateDialog, remount>>

\* The state of the utility components LocalStorage and Toaster.
util == <<storage, storedValue, showLoadDialog, called, notifications>>

(***************************************************************************)
(* Values.  A JavaScript value is a tagged record: null, a string, or an   *)
(* array of option objects.                                                *)
(***************************************************************************)
Null == [t |-> "null"]
Str(s) == [t |-> "str", s |-> s]
Num(n) == [t |-> "num", n |-> n]
Arr(a) == [t |-> "arr", a |-> a]

\* JavaScript truthiness: null and '' are falsy, every array is truthy.
Truthy(v) == v # Null /\ v # Str("")

\* `v || []` read as a list of options.
OrEmpty(v) == IF v.t = "arr" THEN v.a ELSE <<>>

\* Option objects: id 1 is known under two names (renamed on the server).
A == [id |-> 1, name |-> "A"]
A2 == [id |-> 1, name |-> "A2"]
B == [id |-> 2, name |-> "B"]

\* Bounds of the model.
MaxFetches == 2

\* The filter watcher searches from this many characters on.
MinSearchLen == 2

\* What the owner may bind: texts for Input and Textarea, option values
\* (optionValue="id") for Select, selections for Multiselect.
Texts == {Null, Str("a"), Str("b")}
OptionValues == {Null, Num(1), Num(2)}
Selections == {Null, Arr(<<>>), Arr(<<A>>), Arr(<<A, B>>)}
\* What the user may type into the inline text editor.
Typed == {Str(""), Str("a"), Str("b"), Str("c")}
\* What the user may type into the dropdown's filter box.
FilterTexts == {<<>>, <<"a">>, <<"a", "b">>, <<"c", "d">>}
\* What the server may answer to an option request.
Results == {<<>>, <<B, A>>, <<A2>>, <<B>>}
\* What the user may type into the add-new-option dialog (trimmed).
AddTexts == {"", "n"}
\* The data prop of a Static field.
StaticData == <<A, B>>

TextKinds == {"Input", "Textarea"}
Kinds == TextKinds \cup {"Select", "Multiselect"}

Values(kind) ==
    CASE kind = "Multiselect" -> Selections
      [] kind = "Select" -> OptionValues
      [] OTHER -> Texts

\* The configurations a field is constructed with.
Configs ==
    { c \in [kind : Kinds, readOnly : BOOLEAN, allowEdit : BOOLEAN,
             data : BOOLEAN, url : BOOLEAN, onDemandSearch : BOOLEAN,
             add : BOOLEAN] :
        /\ (~c.readOnly => ~c.allowEdit)
        /\ (c.add => c.kind = "Multiselect")
        /\ (c.kind \in TextKinds => ~c.data /\ ~c.url /\ ~c.onDemandSearch)
        /\ (c.kind = "Select" => ~c.onDemandSearch)
        /\ (c.onDemandSearch => c.url /\ ~c.data) }

(***************************************************************************)
(* Helpers of the handlers.                                                *)
(***************************************************************************)
\* self.findIndex((item) => item.id === id): the first index holding the id.
FindIndex(self, id) ==
    CHOOSE i \in 1..Len(self) :
        self[i].id = id /\ \A j \in 1..(i - 1) : self[j].id # id

\* combined.filter((obj, index, self) => index === self.findIndex(...)),
\* from index i on.
RECURSIVE FilterFirst(_, _)
FilterFirst(self, i) ==
    IF i > Len(self) THEN <<>>
    ELSE (IF i = FindIndex(self, self[i].id) THEN <<self[i]>> ELSE <<>>)
         \o FilterFirst(self, i + 1)

\* Combined with the selected items put first.
Combined_SelectedFirst(fetchedOptions, value) ==
    IF Truthy(value) THEN FilterFirst(value.a \o fetchedOptions, 1)
    ELSE fetchedOptions

\* The options a search response leaves: [...fetchedOptions, ...this.value]
\* without duplicates when this.value is truthy, else the response as it is.
Combined(fetchedOptions, value) ==
    IF Truthy(value) THEN FilterFirst(fetchedOptions \o value.a, 1)
    ELSE fetchedOptions

\* Toggled as a handler that only ever opens the editor.
Toggled_Stuck == TRUE

\* toggleEdit: this.isEditing = !this.isEditing.
Toggled == ~isEditing

\* AcceptPayload emitting the committed value instead of the draft.
AcceptPayload_Committed == modelValue

\* acceptEdit: the payload of this.$emit('update:modelValue', this.tmpVal).
AcceptPayload == tmpVal

\* DismissedDraft keeping the draft.
DismissedDraft_Kept == tmpVal

\* dismissEdit: this.tmpVal = this.modelValue.
DismissedDraft == modelValue

\* ResetOptions leaving the search results in place.
ResetOptions_Stale == options

\* watch.filterValue, the filter shortened below the search length:
\* this.options = this.value || [].
ResetOptions == OrEmpty(modelValue)

\* The edit controls are rendered in the read-only branch under v-if="allowEdit".
EditControls == mounted /\ props.readOnly /\ props.allowEdit

\* The inner widget (InputText, Textarea, PrimeSelect, MultiSelect) is rendered.
WidgetShown == mounted /\ (~props.readOnly \/ isEditing)

\* The modelValue watcher is registered: always for Select and Multiselect,
\* until its first run for Input and Textarea (once: true).
WatcherRuns == props.kind \in TextKinds => watchArmed

\* TmpAfterModel sparing a draft that is being edited.
TmpAfterModel_Guarded(v) ==
    IF WatcherRuns /\ props.readOnly /\ ~isEditing THEN v ELSE tmpVal

\* The draft after the modelValue watcher's $nextTick callback, for a
\* modelValue changed to v.
TmpAfterModel(v) == IF WatcherRuns /\ props.readOnly THEN v ELSE tmpVal

\* watch.tmpVal of Multiselect: the options after the draft was assigned
\* newValue; changed says whether the assignment changed tmpVal.
OptionsAfterTmp(newValue, changed, opts) ==
    IF /\ props.kind = "Multiselect"
       /\ changed
       /\ props.readOnly /\ props.onDemandSearch /\ Truthy(newValue)
    THEN newValue.a
    ELSE opts

\* Whether assigning v to tmpVal changes it: another primitive, or another
\* array object (sameObject: v is the array tmpVal already holds).
TmpChanges(v, sameObject) == IF v.t = "arr" THEN ~sameObject ELSE v # tmpVal

\* beforeUpdate of Multiselect, run before a re-render patches the DOM.
BeforeUpdate(opts, loading, value) ==
    IF /\ props.kind = "Multiselect"
       /\ ~props.data /\ Truthy(value) /\ loading /\ ~props.onDemandSearch
    THEN value.a
    ELSE opts

\* PrimeVue MultiSelect.onOptionSelect: remove the option when selected,
\* else append it.
RECURSIVE Without(_, _)
Without(sel, o) ==
    IF sel = <<>> THEN <<>>
    ELSE (IF Head(sel) = o THEN <<>> ELSE <<Head(sel)>>) \o Without(Tail(sel), o)

Toggle(sel, o) ==
    IF \E i \in 1..Len(sel) : sel[i] = o THEN Without(sel, o) ELSE Append(sel, o)

\* The entry dialog is modal and the creation loader covers it: while either
\* is shown the field behind takes no user gesture.
Blocked == showAddDialog \/ showCreateDialog

\* The value the inner widget is bound to.
Bound == IF props.readOnly THEN tmpVal ELSE modelValue

\* The values a user gesture in the inner widget can produce.
WidgetInputs ==
    CASE props.kind \in TextKinds -> Typed \ {Bound}
      [] props.kind = "Select" ->
            {Num(options[i].id) : i \in 1..Len(options)} \ {Bound}
      [] OTHER ->
            {Arr(Toggle(OrEmpty(Bound), options[i])) : i \in 1..Len(options)}

(***************************************************************************)
(* Construction: data() of the field, for any configuration and any bound  *)
(* value.                                                                  *)
(***************************************************************************)
\* data() and the bound value of a field constructed with one of configs.
Constructed(configs) ==
    /\ props \in configs
    /\ mounted = FALSE
    /\ unmounted = FALSE
    /\ modelValue \in Values(props.kind)
    /\ isEditing = FALSE
    /\ tmpVal = Null
    /\ aliased = FALSE
    /\ watchArmed = TRUE
    /\ options = <<>>
    /\ isLoading = CASE props.kind = "Select" -> ~props.data
                     [] props.kind = "Multiselect" ->
                            ~props.data /\ ~props.onDemandSearch
                     [] OTHER -> FALSE
    /\ filterValue = <<>>
    /\ fetches = <<>>
    /\ received = <<>>
    /\ showAddDialog = FALSE
    /\ addInputValue = ""
    /\ showCreateDialog = FALSE
    /\ remount = FALSE
    /\ toasts = <<>>
    /\ emitted = <<>>
    /\ lastOp = "data"

\* A page without the utility components LocalStorage and Toaster.
NoUtil ==
    /\ storage = Null /\ storedValue = Null /\ showLoadDialog = FALSE
    /\ called = Null /\ notifications = <<>>

\* The fields without the footer button "add" (the default, add: false).
Init == Constructed({c \in Configs : ~c.add}) /\ NoUtil

\* The Multiselect fields with the footer button "add" and its dialog.
InitAdd == Constructed({c \in Configs : c.add}) /\ NoUtil

\* A request handed to apiCall: the option list on mount, or a search.  The
\* answer is the server's choice, whatever the search text.
Request(kind) == [kind |-> kind, status |-> "pending"]

\* MountFetches loading the list of every field that has a url.
MountFetches_Eager == props.kind \in {"Select", "Multiselect"} /\ props.url

\* mounted reaches `await apiCall(this.url)`: past the onDemandSearch and
\* data branches, with a url.
MountFetches ==
    /\ props.kind \in {"Select", "Multiselect"}
    /\ ~props.onDemandSearch /\ ~props.data /\ props.url

\* FilterIgnored as a handler that takes every filter text.
FilterIgnored_Never == FALSE

\* onFilter: if (!this.$props.onDemandSearch) return.
FilterIgnored == ~props.onDemandSearch

\* RemoveAllEmits as a handler that always emits.
RemoveAllEmits_Always == TRUE

\* removeAll emits update:modelValue unless the field is read-only.
RemoveAllEmits == ~props.readOnly

\* LoadedOptions merging the bound value into every answer.
LoadedOptions_Merged(kind, fetchedOptions) ==
    FilterFirst(fetchedOptions \o OrEmpty(modelValue), 1)

\* The options a resolved request leaves: the merge for a search, the answer
\* itself for the list loaded on mount.
LoadedOptions(kind, fetchedOptions) ==
    IF kind = "search" THEN Combined(fetchedOptions, modelValue)
    ELSE fetchedOptions

\* FailedOptions merging the bound value into the options at hand.
FailedOptions_Merged == FilterFirst(options \o OrEmpty(modelValue), 1)

\* The options a rejected request leaves: the catch blocks only toast.
FailedOptions == options

\* The summary a failed option request is toasted with; after unmount the
\* template refs are null, `this.$refs.<toaster>.toast` throws inside the
\* catch block and nothing is shown.
LoadFailure ==
    IF unmounted THEN <<>> ELSE <<"errors.messages.couldNotLoad">>

\* The indices of the requests still awaited.
Pending == {i \in 1..Len(fetches) : fetches[i].status = "pending"}

(***************************************************************************)
(* created and mounted, with the immediate watchers of Select and          *)
(* Multiselect and their $nextTick callbacks.                              *)
(***************************************************************************)
Mounted ==
    /\ ~mounted /\ ~unmounted
    /\ mounted' = TRUE
    /\ tmpVal' = IF props.kind \in {"Select", "Multiselect"} /\ props.readOnly
                 THEN modelValue ELSE tmpVal
    /\ aliased' = (tmpVal'.t = "arr")
    /\ options' = CASE props.kind \in TextKinds -> options
                    [] props.kind = "Select" ->
                           (IF props.data THEN StaticData ELSE options)
                    [] props.onDemandSearch ->
                           OptionsAfterTmp(tmpVal', tmpVal' # tmpVal,
                                           OrEmpty(modelValue))
                    [] OTHER -> (IF props.data THEN StaticData ELSE options)
    /\ isLoading' = CASE props.kind \in TextKinds -> isLoading
                      [] props.kind = "Select" ->
                             (IF props.data THEN FALSE ELSE isLoading)
                      [] props.onDemandSearch \/ props.data -> FALSE
                      [] OTHER -> (IF props.url THEN TRUE ELSE isLoading)
    /\ fetches' = IF MountFetches THEN Append(fetches, Request("mount"))
                  ELSE fetches
    /\ emitted' = <<>>
    /\ UNCHANGED dialog
    /\ UNCHANGED util
    /\ lastOp' = "mounted"
    /\ received' = <<>>
    /\ toasts' = <<>>
    /\ UNCHANGED <<props, unmounted, modelValue, isEditing, watchArmed,
                   filterValue>>

(***************************************************************************)
(* The owner assigns a new value to the bound modelValue (for Multiselect  *)
(* always a new array object): watch.modelValue.                           *)
(***************************************************************************)
ModelValueChanged(v) ==
    /\ mounted
    /\ v # modelValue \/ v.t = "arr"
    /\ modelValue' = v
    /\ tmpVal' = TmpAfterModel(v)
    /\ aliased' = (WatcherRuns /\ props.readOnly /\ v.t = "arr")
    /\ watchArmed' = IF props.kind \in TextKinds THEN FALSE ELSE watchArmed
    /\ options' = BeforeUpdate(
                      OptionsAfterTmp(tmpVal',
                          WatcherRuns /\ props.readOnly /\ TmpChanges(v, FALSE),
                          options),
                      isLoading, v)
    /\ emitted' = <<>>
    /\ UNCHANGED dialog
    /\ UNCHANGED util
    /\ lastOp' = "modelValue"
    /\ received' = <<>>
    /\ toasts' = <<>>
    /\ UNCHANGED <<props, mounted, unmounted, isEditing, isLoading, filterValue, fetches>>

(***************************************************************************)
(* The edit controls.                                                      *)
(***************************************************************************)
\* The Edit icon: @click="toggleEdit".
ToggleEdit ==
    /\ EditControls /\ ~isEditing /\ ~Blocked
    /\ isEditing' = Toggled
    /\ options' = BeforeUpdate(options, isLoading, modelValue)
    /\ emitted' = <<>>
    /\ UNCHANGED dialog
    /\ UNCHANGED util
    /\ lastOp' = "toggleEdit"
    /\ received' = <<>>
    /\ toasts' = <<>>
    /\ UNCHANGED <<props, mounted, unmounted, modelValue, tmpVal, aliased, watchArmed,
                   isLoading, filterValue, fetches>>

\* The X icon: @click="dismissEdit".
DismissEdit ==
    /\ EditControls /\ isEditing /\ ~Blocked
    /\ tmpVal' = DismissedDraft
    /\ aliased' = (tmpVal'.t = "arr")
    /\ isEditing' = Toggled
    /\ options' = BeforeUpdate(
                      OptionsAfterTmp(tmpVal',
                                      TmpChanges(tmpVal', aliased), options),
                      isLoading, modelValue)
    /\ emitted' = <<>>
    /\ UNCHANGED dialog
    /\ UNCHANGED util
    /\ lastOp' = "dismissEdit"
    /\ received' = <<>>
    /\ toasts' = <<>>
    /\ UNCHANGED <<props, mounted, unmounted, modelValue, watchArmed, isLoading,
                   filterValue, fetches>>

\* The Check icon: @click="acceptEdit".  The owner stores the payload, which
\* is the draft object itself, so the draft does not change under the watcher.
AcceptEdit ==
    /\ EditControls /\ isEditing /\ ~Blocked
    /\ emitted' = <<AcceptPayload>>
    /\ modelValue' = emitted'[1]
    /\ aliased' = (tmpVal.t = "arr" /\ modelValue' = tmpVal)
    /\ watchArmed' = IF props.kind \in TextKinds /\ modelValue' # modelValue
                     THEN FALSE ELSE watchArmed
    /\ isEditing' = Toggled
    /\ options' = BeforeUpdate(options, isLoading, modelValue')
    /\ UNCHANGED dialog
    /\ UNCHANGED util
    /\ lastOp' = "acceptEdit"
    /\ received' = <<>>
    /\ toasts' = <<>>
    /\ UNCHANGED <<props, mounted, unmounted, tmpVal, isLoading, filterValue, fetches>>

\* acceptEdit invoked while a field with edit controls is not editing: the
\* method is public on the component instance (a template ref of the owner
\* reaches it) and has no guard of its own; it emits the draft and toggles
\* isEditing like any call.
AcceptEditCalled ==
    /\ EditControls /\ ~isEditing /\ ~Blocked
    /\ emitted' = <<AcceptPayload>>
    /\ modelValue' = emitted'[1]
    /\ aliased' = (tmpVal.t = "arr" /\ modelValue' = tmpVal)
    /\ watchArmed' = IF props.kind \in TextKinds /\ modelValue' # modelValue
                     THEN FALSE ELSE watchArmed
    /\ isEditing' = Toggled
    /\ options' = BeforeUpdate(options, isLoading, modelValue')
    /\ UNCHANGED dialog
    /\ UNCHANGED util
    /\ lastOp' = "acceptEdit"
    /\ received' = <<>>
    /\ toasts' = <<>>
    /\ UNCHANGED <<props, mounted, unmounted, tmpVal, isLoading, filterValue, fetches>>

(***************************************************************************)
(* The inner widget.                                                       *)
(***************************************************************************)
\* A gesture in the widget updates its v-model: the draft tmpVal in the
\* inline editor, the computed `value` (an emit) in the editable field.
Input(v) ==
    /\ WidgetShown /\ ~Blocked
    /\ v \in WidgetInputs
    /\ IF props.readOnly
       THEN /\ tmpVal' = v
            /\ options' = BeforeUpdate(OptionsAfterTmp(v, TRUE, options),
                                       isLoading, modelValue)
            /\ emitted' = <<>>
            /\ UNCHANGED <<modelValue, watchArmed>>
       ELSE /\ emitted' = <<v>>
            /\ modelValue' = v
            /\ watchArmed' = IF props.kind \in TextKinds THEN FALSE ELSE watchArmed
            /\ options' = BeforeUpdate(options, isLoading, v)
            /\ UNCHANGED tmpVal
    /\ aliased' = FALSE
    /\ UNCHANGED dialog
    /\ UNCHANGED util
    /\ lastOp' = "input"
    /\ received' = <<>>
    /\ toasts' = <<>>
    /\ UNCHANGED <<props, mounted, unmounted, isEditing, isLoading, filterValue, fetches>>

\* The footer button "remove all" of Multiselect.
RemoveAll ==
    /\ props.kind = "Multiselect" /\ WidgetShown /\ ~Blocked
    /\ IF ~RemoveAllEmits
       THEN /\ tmpVal' = Arr(<<>>)
            /\ options' = BeforeUpdate(OptionsAfterTmp(Arr(<<>>), TRUE, options),
                                       isLoading, modelValue)
            /\ emitted' = <<>>
            /\ UNCHANGED modelValue
       ELSE /\ emitted' = <<Arr(<<>>)>>
            /\ modelValue' = Arr(<<>>)
            /\ options' = BeforeUpdate(options, isLoading, Arr(<<>>))
            /\ UNCHANGED tmpVal
    /\ aliased' = FALSE
    /\ UNCHANGED dialog
    /\ UNCHANGED util
    /\ lastOp' = "removeAll"
    /\ received' = <<>>
    /\ toasts' = <<>>
    /\ UNCHANGED <<props, mounted, unmounted, isEditing, watchArmed, isLoading, filterValue,
                   fetches>>

\* The filter box of Multiselect: @filter="onFilter", then watch.filterValue
\* up to its await.  The widget raises the event when the text in the box
\* changes.
OnFilter(text) ==
    /\ props.kind = "Multiselect" /\ WidgetShown /\ ~Blocked
    /\ FilterIgnored \/ text # filterValue
    /\ UNCHANGED dialog
    /\ UNCHANGED util
    /\ lastOp' = "onFilter"
    /\ received' = <<>>
    /\ emitted' = <<>>
    /\ IF FilterIgnored
       THEN UNCHANGED <<filterValue, options, isLoading, fetches>>
       ELSE /\ filterValue' = text
            /\ IF Len(filterValue) >= MinSearchLen /\ Len(text) < MinSearchLen
               THEN /\ options' = ResetOptions
                    /\ UNCHANGED <<isLoading, fetches>>
               ELSE IF Len(text) >= MinSearchLen
               THEN /\ Len(fetches) < MaxFetches
                    /\ isLoading' = TRUE
                    /\ fetches' = Append(fetches, Request("search"))
                    /\ UNCHANGED options
               ELSE UNCHANGED <<options, isLoading, fetches>>
    /\ toasts' = <<>>
    /\ UNCHANGED <<props, mounted, unmounted, modelValue, isEditing, tmpVal, aliased,
                   watchArmed>>

(***************************************************************************)
(* The continuations of `await apiCall(...)`.                              *)
(***************************************************************************)
\* Request i resolves with fetchedOptions.
FetchResolved(i, fetchedOptions) ==
    /\ (mounted \/ unmounted) /\ i \in Pending
    /\ fetches' = [fetches EXCEPT ![i].status = "ok"]
    /\ received' = fetchedOptions
    /\ options' = LoadedOptions(fetches[i].kind, fetchedOptions)
    /\ isLoading' = FALSE
    /\ emitted' = <<>>
    /\ UNCHANGED dialog
    /\ UNCHANGED util
    /\ lastOp' = "fetchResolved"
    /\ toasts' = <<>>
    /\ UNCHANGED <<props, mounted, unmounted, modelValue, isEditing, tmpVal, aliased,
                   watchArmed, filterValue>>

\* Request i rejects: the catch block toasts, finally clears isLoading.
FetchRejected(i) ==
    /\ (mounted \/ unmounted) /\ i \in Pending
    /\ fetches' = [fetches EXCEPT ![i].status = "failed"]
    /\ received' = <<>>
    /\ toasts' = LoadFailure
    /\ options' = FailedOptions
    /\ isLoading' = FALSE
    /\ emitted' = <<>>
    /\ UNCHANGED dialog
    /\ UNCHANGED util
    /\ lastOp' = "fetchRejected"
    /\ UNCHANGED <<props, mounted, unmounted, modelValue, isEditing, tmpVal, aliased,
                   watchArmed, filterValue>>

(***************************************************************************)
(* The owner removes the field from the page (v-if, route change).  The    *)
(* requests it awaits stay in flight and their continuations still run.    *)
(***************************************************************************)
Unmounted ==
    /\ mounted
    /\ mounted' = FALSE
    /\ unmounted' = TRUE
    /\ emitted' = <<>>
    /\ UNCHANGED dialog
    /\ UNCHANGED util
    /\ lastOp' = "unmounted"
    /\ received' = <<>>
    /\ toasts' = <<>>
    /\ UNCHANGED <<props, modelValue, isEditing, tmpVal, aliased, watchArmed,
                   options, isLoading, filterValue, fetches>>

(***************************************************************************)
(* The add-new-option dialog of Multiselect.  Every change of its state    *)
(* re-renders the field, so beforeUpdate runs.                             *)
(***************************************************************************)
\* The footer button "add": @click="addEntry".
AddEntry ==
    /\ props.kind = "Multiselect" /\ props.add /\ WidgetShown /\ ~Blocked
    /\ showAddDialog' = TRUE
    /\ options' = BeforeUpdate(options, isLoading, modelValue)
    /\ emitted' = <<>>
    /\ toasts' = <<>>
    /\ received' = <<>>
    /\ lastOp' = "addEntry"
    /\ UNCHANGED util
    /\ UNCHANGED <<props, mounted, unmounted, modelValue, isEditing, tmpVal,
                   aliased, watchArmed, isLoading, filterValue, fetches,
                   addInputValue, showCreateDialog, remount>>

\* The entry dialog takes gestures while it is open and no creation runs.
DialogShown == mounted /\ showAddDialog /\ ~showCreateDialog

\* Typing into the dialog's Input: v-model.trim="addInputValue".
AddInput(text) ==
    /\ DialogShown
    /\ text # addInputValue
    /\ addInputValue' = text
    /\ options' = BeforeUpdate(options, isLoading, modelValue)
    /\ emitted' = <<>>
    /\ toasts' = <<>>
    /\ received' = <<>>
    /\ lastOp' = "addInput"
    /\ UNCHANGED util
    /\ UNCHANGED <<props, mounted, unmounted, modelValue, isEditing, tmpVal,
                   aliased, watchArmed, isLoading, filterValue, fetches,
                   showAddDialog, showCreateDialog, remount>>

\* The dialog's button "cancel": showAddDialog = false.
CancelAdd ==
    /\ DialogShown
    /\ showAddDialog' = FALSE
    /\ options' = BeforeUpdate(options, isLoading, modelValue)
    /\ emitted' = <<>>
    /\ toasts' = <<>>
    /\ received' = <<>>
    /\ lastOp' = "cancelAdd"
    /\ UNCHANGED util
    /\ UNCHANGED <<props, mounted, unmounted, modelValue, isEditing, tmpVal,
                   aliased, watchArmed, isLoading, filterValue, fetches,
                   addInputValue, showCreateDialog, remount>>

\* The dialog's button "add": createElement up to `await apiCall(url, "POST",
\* body)`.
CreateElement ==
    /\ DialogShown
    /\ showCreateDialog' = TRUE
    /\ options' = BeforeUpdate(options, isLoading, modelValue)
    /\ emitted' = <<>>
    /\ toasts' = <<>>
    /\ received' = <<>>
    /\ lastOp' = "createElement"
    /\ UNCHANGED util
    /\ UNCHANGED <<props, mounted, unmounted, modelValue, isEditing, tmpVal,
                   aliased, watchArmed, isLoading, filterValue, fetches,
                   showAddDialog, addInputValue, remount>>

\* The summary a failed creation is toasted with; nothing after unmount,
\* when the toaster's template ref is null.
CreateFailure ==
    IF unmounted THEN <<>> ELSE <<"errors.messages.couldNotCreate">>

\* DialogAfterFailure closing the entry dialog.
DialogAfterFailure_Closed == FALSE

\* The catch block of createElement leaves showAddDialog as it is.
DialogAfterFailure == showAddDialog

\* The POST resolves: the dialog closes, its text is cleared, the key
\* `remount` of the editable branch flips (the inner widget is created anew
\* on the next render; the field itself is not, so its mounted hook does not
\* run again) and the dropdown is toggled.
\* After unmount the widget's template ref is null: toggle() throws into the
\* catch block, whose toast throws in turn; finally still runs.
CreateResolved ==
    /\ (mounted \/ unmounted) /\ showCreateDialog
    /\ showAddDialog' = FALSE
    /\ addInputValue' = ""
    /\ remount' = ~remount
    /\ showCreateDialog' = FALSE
    /\ options' = IF mounted THEN BeforeUpdate(options, isLoading, modelValue)
                  ELSE options
    /\ emitted' = <<>>
    /\ toasts' = <<>>
    /\ received' = <<>>
    /\ lastOp' = "createResolved"
    /\ UNCHANGED util
    /\ UNCHANGED <<props, mounted, unmounted, modelValue, isEditing, tmpVal,
                   aliased, watchArmed, isLoading, filterValue, fetches>>

\* The POST rejects: the catch block toasts, finally hides the loader.
CreateRejected ==
    /\ (mounted \/ unmounted) /\ showCreateDialog
    /\ showAddDialog' = DialogAfterFailure
    /\ showCreateDialog' = FALSE
    /\ options' = IF mounted THEN BeforeUpdate(options, isLoading, modelValue)
                  ELSE options
    /\ emitted' = <<>>
    /\ toasts' = CreateFailure
    /\ received' = <<>>
    /\ lastOp' = "createRejected"
    /\ UNCHANGED util
    /\ UNCHANGED <<props, mounted, unmounted, modelValue, isEditing, tmpVal,
                   aliased, watchArmed, isLoading, filterValue, fetches,
                   addInputValue, remount>>

Next ==
    \/ Mounted
    \/ \E v \in Values(props.kind) : ModelValueChanged(v)
    \/ ToggleEdit
    \/ DismissEdit
    \/ AcceptEdit
    \/ \E v \in WidgetInputs : Input(v)
    \/ RemoveAll
    \/ \E text \in FilterTexts : OnFilter(text)
    \/ \E i \in 1..MaxFetches, r \in Results : FetchResolved(i, r)
    \/ \E i \in 1..MaxFetches : FetchRejected(i)
    \/ Unmounted

Spec == Init /\ [][Next]_vars

\* The field whose owner also calls acceptEdit through the instance.
NextCalls == Next \/ AcceptEditCalled

SpecCalls == Init /\ [][NextCalls]_vars

\* The steps of a field with the add-new-option dialog.
NextAdd ==
    \/ Next
    \/ AddEntry
    \/ \E text \in AddTexts : AddInput(text)
    \/ CancelAdd
    \/ CreateElement
    \/ CreateResolved
    \/ CreateRejected

SpecAdd == InitAdd /\ [][NextAdd]_vars

(***************************************************************************)
(* The utility components.  They are mounted on their own: the variables   *)
(* of the form field keep their construction values.                       *)
(***************************************************************************)
\* The variables of the form field that no utility component touches.
field == <<props, unmounted, modelValue, isEditing, tmpVal, aliased, watchArmed,
           options, isLoading, filterValue, fetches, received, toasts>>

\* A page without a form field.
NoField == [kind |-> "Input", readOnly |-> FALSE, allowEdit |-> FALSE,
            data |-> FALSE, url |-> FALSE, onDemandSearch |-> FALSE,
            add |-> FALSE]

(***************************************************************************)
(* Toaster.  A string is the sequence of its characters, so that           *)
(* concatenation and capitalize are what they are in JavaScript.           *)
(***************************************************************************)
Txt(chars) == [t |-> "str", s |-> chars]

\* `x ? ... : ...` on a string or null: null and '' are falsy.
Given(v) == v.t = "str" /\ v.s # <<>>

\* The keys callers pass, and a label that has no message in the locale.
SummaryKey == <<"e", "r", "r">>
MessageKey == <<"m", "s", "g">>
LabelKey == <<"t", "a", "g", "s">>
Untranslated == <<"o", "k">>
LoadKey == <<"e", "r", "r", "o", "r", "s", ".", "s", "t", "o", "r", "a", "g",
             "e", ".", "l", "o", "a", "d">>

\* The messages of the active locale.
Locale ==
    (SummaryKey :> <<"f", "a", "i", "l", "e", "d">>)
    @@ (MessageKey :> <<"r", "e", "t", "r", "y">>)
    @@ (LabelKey :> <<"l", "a", "b", "e", "l", "s">>)
    @@ (LoadKey :> <<"n", "o", "t", " ", "r", "e", "a", "d">>)

\* vue-i18n's t(key): the message of key, or key itself when there is none.
T(key) == IF key \in DOMAIN Locale THEN Locale[key] ELSE key

\* String.prototype.toUpperCase on one character of the texts above.
ToUpperCase(c) ==
    CASE c = "f" -> "F" [] c = "r" -> "R" [] c = "l" -> "L"
      [] c = "n" -> "N" [] c = "o" -> "O" [] c = "e" -> "E"
      [] c = "m" -> "M" [] c = "t" -> "T"
      [] OTHER -> c

\* vue's capitalize: str.charAt(0).toUpperCase() + str.slice(1).
Capitalize(chars) ==
    IF chars = <<>> THEN <<>> ELSE <<ToUpperCase(chars[1])>> \o Tail(chars)

\* The conditional of line 43: `?:` binds weaker than `+`, so the else
\* branch is the whole of '' + ' ' + t(summary).
ToastSummary(summary, summaryPrefix) ==
    IF Given(summary)
    THEN Capitalize(IF Given(summaryPrefix) THEN T(summaryPrefix.s)
                    ELSE <<>> \o <<" ">> \o T(summary.s))
    ELSE <<>>

\* The object toast hands to primeToast.add.
Toast(summary, message, severity, summaryPrefix, life) ==
    [group |-> "genericToast",
     severity |-> severity,
     summary |-> ToastSummary(summary, summaryPrefix),
     detail |-> IF Given(message) THEN Capitalize(T(message.s)) ELSE <<>>,
     life |-> life]

\* The arguments of a toast call.
Call(summary, message, severity, summaryPrefix, life) ==
    [summary |-> summary, message |-> message, severity |-> severity,
     summaryPrefix |-> summaryPrefix, life |-> life]

Summaries == {Null, Txt(<<>>), Txt(SummaryKey), Txt(Untranslated)}
Messages == {Null, Txt(<<>>), Txt(MessageKey)}
Severities == {"success", "warn", "error"}
Prefixes == {Null, Txt(LabelKey), Txt(Untranslated)}
Lifes == {Null, Num(3000), Num(5000)}

\* A page with a Toaster and no form field.
InitToast ==
    /\ Constructed({NoField}) /\ modelValue = Null
    /\ storage = Null /\ storedValue = Null /\ showLoadDialog = FALSE
    /\ called = Null /\ notifications = <<>>

\* Some component calls this.$refs.toaster.toast(...).
ToastCalled(summary, message, severity, summaryPrefix, life) ==
    /\ called' = Call(summary, message, severity, summaryPrefix, life)
    /\ notifications' =
           <<Toast(summary, message, severity, summaryPrefix, life)>>
    /\ lastOp' = "toast"
    /\ UNCHANGED <<field, dialog, mounted, emitted, storage, storedValue,
                   showLoadDialog>>

NextToast ==
    \E summary \in Summaries, message \in Messages, severity \in Severities,
       summaryPrefix \in Prefixes, life \in Lifes :
        ToastCalled(summary, message, severity, summaryPrefix, life)

SpecToast == InitToast /\ [][NextToast]_vars

(***************************************************************************)
(* LocalStorage.  The bound data is a form object { name, email } as in    *)
(* the component's example; an entry of localStorage is a string, the      *)
(* sequence of its characters.                                             *)
(***************************************************************************)
Obj(name, email) == [t |-> "obj", name |-> name, email |-> email]

\* The values the owner binds: null or a form object.
StoredValues ==
    {Null} \cup {Obj(name, email) : name \in {<<>>, <<"x">>, <<"y">>},
                                    email \in {<<>>, <<"z">>}}

\* JSON.stringify of a form object: the fields in order, between braces.
Stringify(v) == <<"{">> \o v.name \o <<",">> \o v.email \o <<"}">>

\* The positions of the separators in a text.
Commas(text) == {i \in 1..Len(text) : text[i] = ","}

\* JSON.parse succeeds on text: it is a complete object literal.
Decodable(text) ==
    /\ Len(text) >= 3 /\ text[1] = "{" /\ text[Len(text)] = "}"
    /\ \A i \in 2..(Len(text) - 1) : text[i] \notin {"{", "}"}
    /\ Cardinality(Commas(text)) = 1

\* JSON.parse of a decodable text.
Parse(text) ==
    LET c == CHOOSE i \in Commas(text) : TRUE
    IN  Obj(SubSeq(text, 2, c - 1), SubSeq(text, c + 1, Len(text) - 1))

\* An entry that was cut off while it was written.
Corrupt == <<"{", "x">>

\* What localStorage.getItem(storageKey) can return when the page loads:
\* null, an empty string, a cut-off text, or what the watcher stored.
Entries ==
    {Null, Txt(<<>>), Txt(Corrupt)}
    \cup {Txt(Stringify(v)) : v \in StoredValues \ {Null}}

\* watch.storedValue: a truthy new value is stored under the key.
StoredAfter(newValue, entry) ==
    IF newValue # Null THEN Txt(Stringify(newValue)) ELSE entry

\* A load failure reported with severity error.
LoadWarning_AsError ==
    Toast(Txt(LoadKey), Null, "error", Null, Num(3000))

\* The notification of the catch block of loadStoredData.
LoadWarning == Toast(Txt(LoadKey), Null, "warn", Null, Num(3000))

\* A page with the LocalStorage component and no form field: any entry
\* under the key of the route, any bound data.
InitStorage ==
    /\ Constructed({NoField}) /\ modelValue = Null
    /\ storage \in Entries
    /\ storedValue \in StoredValues
    /\ showLoadDialog = FALSE
    /\ called = Null /\ notifications = <<>>

\* created and mounted: the prompt opens when the key holds a truthy entry.
StorageMounted ==
    /\ ~mounted
    /\ mounted' = TRUE
    /\ showLoadDialog' = Given(storage)
    /\ emitted' = <<>>
    /\ called' = Null /\ notifications' = <<>>
    /\ lastOp' = "mounted"
    /\ UNCHANGED <<field, dialog, storage, storedValue>>

\* The owner changes the bound data (a new object or a change inside it);
\* the deep watcher runs after the change.
StoredValueChanged(v) ==
    /\ mounted
    /\ v # Null \/ storedValue # Null
    /\ storedValue' = v
    /\ storage' = StoredAfter(v, storage)
    /\ emitted' = <<>>
    /\ called' = Null /\ notifications' = <<>>
    /\ lastOp' = "storedValue"
    /\ UNCHANGED <<field, dialog, mounted, showLoadDialog>>

\* The button "yes".  A decoded entry is emitted and the owner's v-model
\* assigns it to the bound data; finally removes the entry; the watcher of
\* storedValue, queued by the assignment, runs after the handler.  An
\* undecodable entry makes JSON.parse throw into the catch block.
LoadStoredData ==
    /\ mounted /\ showLoadDialog
    /\ IF Given(storage)
       THEN IF Decodable(storage.s)
            THEN /\ emitted' = <<Parse(storage.s)>>
                 /\ storedValue' = emitted'[1]
                 /\ storage' = StoredAfter(storedValue', Null)
                 /\ called' = Null /\ notifications' = <<>>
            ELSE /\ emitted' = <<>>
                 /\ called' = Call(Txt(LoadKey), Null, "warn", Null, Num(3000))
                 /\ notifications' = <<LoadWarning>>
                 /\ storage' = Null
                 /\ UNCHANGED storedValue
       ELSE /\ emitted' = <<>>
            /\ called' = Null /\ notifications' = <<>>
            /\ UNCHANGED <<storage, storedValue>>
    /\ showLoadDialog' = FALSE
    /\ lastOp' = "loadStoredData"
    /\ UNCHANGED <<field, dialog, mounted>>

\* removeStoredData, called by the owner through a ref.
RemoveStoredData ==
    /\ mounted
    /\ storage' = Null
    /\ emitted' = <<>>
    /\ called' = Null /\ notifications' = <<>>
    /\ lastOp' = "removeStoredData"
    /\ UNCHANGED <<field, dialog, mounted, storedValue, showLoadDialog>>

\* The button "no".
RejectStoredData ==
    /\ mounted /\ showLoadDialog
    /\ storage' = Null
    /\ showLoadDialog' = FALSE
    /\ emitted' = <<>>
    /\ called' = Null /\ notifications' = <<>>
    /\ lastOp' = "rejectStoredData"
    /\ UNCHANGED <<field, dialog, mounted, storedValue>>

\* The page is loaded again: the component and its owner are constructed
\* anew, localStorage keeps its entry.
PageLoaded(v) ==
    /\ mounted
    /\ mounted' = FALSE
    /\ storedValue' = v
    /\ showLoadDialog' = FALSE
    /\ emitted' = <<>>
    /\ called' = Null /\ notifications' = <<>>
    /\ lastOp' = "data"
    /\ UNCHANGED <<field, dialog, storage>>

NextStorage ==
    \/ StorageMounted
    \/ \E v \in StoredValues : StoredValueChanged(v)
    \/ LoadStoredData
    \/ RemoveStoredData
    \/ RejectStoredData
    \/ \E v \in StoredValues : PageLoaded(v)

SpecStorage == InitStorage /\ [][NextStorage]_vars

TypeOK ==
    /\ props \in Configs
    /\ mounted \in BOOLEAN /\ unmounted \in BOOLEAN /\ ~(mounted /\ unmounted)
    /\ isEditing \in BOOLEAN /\ isLoading \in BOOLEAN
    /\ aliased \in BOOLEAN /\ watchArmed \in BOOLEAN
    /\ filterValue \in FilterTexts
    /\ showAddDialog \in BOOLEAN /\ showCreateDialog \in BOOLEAN
    /\ addInputValue \in AddTexts /\ remount \in BOOLEAN
    /\ Len(fetches) <= MaxFetches
    /\ received \in Results
    /\ Len(toasts) <= 1
    /\ Len(emitted) <= 1
    /\ Len(notifications) <= 1
    /\ showLoadDialog \in BOOLEAN
    /\ storage \in Entries /\ storedValue \in StoredValues

(***************************************************************************)
(* The claims.                                                             *)
(***************************************************************************)
OnDemand == mounted /\ props.kind = "Multiselect" /\ props.onDemandSearch

\* The selection the field shows: the draft in the inline editor, else the
\* bound value.
Selected == IF props.readOnly /\ isEditing THEN tmpVal ELSE modelValue

\* C1: a search response that arrives after the response to a newer search
\* has been applied does not overwrite the options (the newest search wins
\* whatever the order of completion).
C1_NewestSearchWins ==
    [][\A i \in 1..Len(fetches) :
          /\ fetches[i].kind = "search"
          /\ fetches[i].status = "pending" /\ fetches'[i].status = "ok"
          /\ i < Len(fetches) /\ fetches[Len(fetches)].status = "ok"
          => options' = options]_vars

\* C2: every accept emits exactly one update:modelValue, and its payload is
\* the draft held when accept was clicked.
C2_AcceptEmitsDraft ==
    [][lastOp' = "acceptEdit" => emitted' = <<tmpVal>>]_vars

C2_Witness == lastOp = "acceptEdit" /\ emitted = <<Str("c")>>

\* C3: a dismiss emits nothing, leaves modelValue as it is and resets the
\* draft to it; and in display mode a draft equal to modelValue stays equal
\* to it through every step but an external update, so the next begin-edit
\* starts from the unchanged modelValue.
C3_DismissDiscards ==
    [][/\ lastOp' = "dismissEdit" =>
            emitted' = <<>> /\ modelValue' = modelValue /\ tmpVal' = modelValue
       /\ (/\ mounted /\ props.readOnly /\ ~isEditing
           /\ tmpVal = modelValue /\ lastOp' # "modelValue")
          => tmpVal' = modelValue /\ modelValue' = modelValue]_vars

\* An Input whose modelValue never changed is being edited again, from the
\* bound text: the edit before ended in a dismiss.
C3_Witness ==
    /\ props.kind = "Input" /\ watchArmed /\ lastOp = "toggleEdit"
    /\ isEditing /\ tmpVal = modelValue /\ modelValue = Str("a")

\* C4: isEditing starts false; begin-edit takes it from false to true,
\* accept and dismiss take it from true to false, nothing else changes it.
C4_EditAlternates ==
    /\ ~isEditing
    /\ [][/\ lastOp' = "toggleEdit" => ~isEditing /\ isEditing'
          /\ lastOp' \in {"acceptEdit", "dismissEdit"} => isEditing /\ ~isEditing'
          /\ lastOp' \notin {"toggleEdit", "acceptEdit", "dismissEdit"}
                => isEditing' = isEditing]_vars

C4_Witness == lastOp = "acceptEdit" /\ ~isEditing /\ props.kind = "Textarea"

\* C5: when an edit begins, the draft equals the committed modelValue.
C5_BeginEditSeedsDraft == lastOp = "toggleEdit" => tmpVal = modelValue

\* C6: after an external change of modelValue in display mode the draft
\* equals the new modelValue.
C6_DisplayMirrorsModel ==
    props.readOnly /\ ~isEditing /\ lastOp = "modelValue" => tmpVal = modelValue

\* C7, as claimed: an external change of modelValue during an edit leaves
\* the draft as it is.
C7_DraftUndisturbed ==
    [][props.readOnly /\ isEditing /\ lastOp' = "modelValue"
          => tmpVal' = tmpVal]_vars

\* C7, amended: an external change of modelValue during an edit overwrites
\* the draft with the new modelValue in Select and Multiselect, and in Input
\* and Textarea when it is the first change since mount; only an Input or
\* Textarea whose once-only watcher has already run keeps the draft.
C7_DraftFollowsWatcher ==
    [][props.readOnly /\ isEditing /\ lastOp' = "modelValue"
          => tmpVal' = IF props.kind \in TextKinds /\ ~watchArmed
                       THEN tmpVal ELSE modelValue']_vars

C7_Witness ==
    /\ props.kind = "Select" /\ isEditing /\ lastOp = "modelValue"
    /\ tmpVal = modelValue /\ modelValue = Num(2)

\* The selected items a search result does not already hold, each id once.
RECURSIVE Retained(_, _)
Retained(sel, seen) ==
    IF sel = <<>> THEN <<>>
    ELSE IF Head(sel).id \in seen THEN Retained(Tail(sel), seen)
    ELSE <<Head(sel)>> \o Retained(Tail(sel), seen \cup {Head(sel).id})

C10_ShortFilterShowsSelection ==
    OnDemand /\ Len(filterValue) < MinSearchLen => options = OrEmpty(Selected)

\* The ids an option list holds.
Ids(list) == {list[i].id : i \in 1..Len(list)}

\* C11: in an on-demand field every selected item (the draft while editing,
\* else the bound value) is among the options, in every state.
C11_SelectionAmongOptions ==
    OnDemand => Ids(OrEmpty(Selected)) \subseteq Ids(options)

\* Remote mode: a list field with a url, no data and no on-demand search.
Remote ==
    /\ props.kind \in {"Select", "Multiselect"}
    /\ props.url /\ ~props.data /\ ~props.onDemandSearch

\* C12: after the request issued on mount has failed, a Remote field has no
\* options, is not loading, and has reported exactly one load failure.
C12_RemoteFailureLeavesEmpty ==
    Remote /\ mounted /\ lastOp = "fetchRejected" =>
        /\ options = <<>>
        /\ ~isLoading
        /\ toasts = <<"errors.messages.couldNotLoad">>

\* C13: a Remote field is loading from construction until the request
\* issued on mount completes, and when that request succeeds options is
\* exactly its answer and the field is no longer loading.
C13_RemoteLoads ==
    Remote =>
        /\ (~mounted /\ ~unmounted) \/ 1 \in Pending => isLoading
        /\ mounted /\ lastOp = "fetchResolved" => options = received /\ ~isLoading

\* A Remote Multiselect bound to [A] was re-rendered while loading (options
\* showed the bound value) and then received [B].
C13_Witness ==
    /\ Remote /\ props.kind = "Multiselect" /\ mounted /\ props.readOnly
    /\ lastOp = "fetchResolved" /\ isEditing
    /\ modelValue = Arr(<<A>>) /\ received = <<B>> /\ options = <<B>>

\* C14: a mounted Select or Multiselect is loading exactly when one of its
\* option requests is pending.
C14_LoadingIffPending ==
    mounted /\ props.kind \in {"Select", "Multiselect"} =>
        (isLoading <=> Pending # {})

\* Static mode: a list field with data and no on-demand search.
Static ==
    /\ props.kind \in {"Select", "Multiselect"}
    /\ props.data /\ ~props.onDemandSearch

\* C15: from mount on, the options of a Static field are exactly the
\* injected data, whatever happens; filter input is a no-op (the filter text
\* the field keeps stays empty, nothing is requested, nothing loads).
C15_StaticOptionsFixed ==
    Static /\ (mounted \/ unmounted) =>
        /\ options = StaticData
        /\ filterValue = <<>> /\ fetches = <<>> /\ ~isLoading

\* A read-only Static Multiselect whose draft was changed in the inline
\* editor and whose filter box was then typed into.
C15_Witness ==
    /\ Static /\ props.kind = "Multiselect" /\ props.readOnly /\ isEditing
    /\ lastOp = "onFilter" /\ tmpVal = Arr(<<A, B>>) /\ modelValue = Arr(<<A>>)
    /\ options = StaticData

C17_UnmountedIgnoresCompletions ==
    [][unmounted => /\ options' = options
                    /\ isLoading' = isLoading
                    /\ toasts' = <<>>]_vars

\* C18: a step issues a request only when it is the mount of a Remote field
\* or a change of the filter text of an on-demand field to at least 2
\* characters, and then exactly one; requests already issued are never
\* issued again.
C18_FetchesOnlyByTriggers ==
    [][/\ Len(fetches') = Len(fetches) +
             (IF \/ lastOp' = "mounted" /\ Remote
                 \/ /\ lastOp' = "onFilter"
                    /\ props.kind = "Multiselect" /\ props.onDemandSearch
                    /\ filterValue' # filterValue
                    /\ Len(filterValue') >= MinSearchLen
              THEN 1 ELSE 0)
       /\ \A i \in 1..Len(fetches) : fetches'[i].kind = fetches[i].kind]_vars

\* A second search was issued after the first one failed and the filter was
\* cut to one character in between.
C18_Witness ==
    /\ OnDemand /\ lastOp = "onFilter" /\ filterValue = <<"c", "d">>
    /\ Len(fetches) = 2 /\ fetches[1].status = "failed"
    /\ fetches[2].status = "pending"

\* C19: in a read-only field every step but accept and the owner's own
\* update emits nothing and leaves modelValue as it is; removeAll empties
\* the draft.
C19_CommitOnlyByAccept ==
    [][/\ props.readOnly /\ lastOp' \notin {"acceptEdit", "modelValue"}
          => emitted' = <<>> /\ modelValue' = modelValue
       /\ props.readOnly /\ lastOp' = "removeAll" => tmpVal' = Arr(<<>>)]_vars

C19_Witness ==
    /\ props.readOnly /\ lastOp = "removeAll" /\ isEditing
    /\ tmpVal = Arr(<<>>) /\ modelValue = Arr(<<A, B>>)

\* C20: when the creation request of a mounted field fails, exactly one
\* creation failure is toasted, the loader showCreateDialog is hidden, and
\* the entry dialog, the typed text, the options, the bound value and the
\* draft are as before; nothing is emitted.
C20_CreateFailureReported ==
    [][mounted /\ lastOp' = "createRejected"
       => /\ toasts' = <<"errors.messages.couldNotCreate">>
          /\ ~showCreateDialog'
          /\ showAddDialog' = showAddDialog
          /\ addInputValue' = addInputValue
          /\ options' = options
          /\ modelValue' = modelValue /\ tmpVal' = tmpVal
          /\ emitted' = <<>>]_vars

\* The creation of "n" failed in a Remote field that is still loading and
\* shows the bound value as its options.
C20_Witness ==
    /\ mounted /\ lastOp = "createRejected"
    /\ showAddDialog /\ addInputValue = "n" /\ ~showCreateDialog
    /\ toasts = <<"errors.messages.couldNotCreate">>
    /\ isLoading /\ modelValue = Arr(<<A>>) /\ options = <<A>>

\* C27: begin-edit immediately followed by accept emits the current
\* modelValue, for every kind of field and every value the field was
\* constructed with.
C27_UntouchedEditIsIdentity ==
    [][lastOp = "toggleEdit" /\ lastOp' = "acceptEdit"
       => emitted' = <<modelValue>>]_vars

\* C26: in the inline editor of a read-only on-demand Multiselect whose
\* filter text has at least 2 characters and whose requests have all
\* completed, a selection or deselection removes no option from the list.
C26_SearchHitsKept ==
    [][/\ OnDemand /\ props.readOnly /\ isEditing
       /\ Len(filterValue) >= MinSearchLen /\ Pending = {}
       /\ lastOp' = "input"
       => Ids(options) \subseteq Ids(options')]_vars

\* C22: after every invocation of acceptEdit, whatever the mode it was
\* invoked in, the field is in display mode (isEditing = false).
C22_AcceptLeavesDisplay ==
    [][lastOp' = "acceptEdit" => ~isEditing']_vars

\* C21: when the add-new-option request of a mounted Remote field succeeds,
\* the dialog is closed, its text is empty and a load of the options is in
\* flight, so that the created option arrives without the user asking.
C21_CreatedOptionLoaded ==
    [][mounted /\ Remote /\ lastOp' = "createResolved"
       => /\ ~showAddDialog' /\ addInputValue' = ""
          /\ Pending' # {}]_vars

\* A text in capitals, to compare texts whatever their case.
Capitals(text) == [i \in 1..Len(text) |-> ToUpperCase(text[i])]

\* The text part occurs in text, whatever the case.
Contains(text, part) ==
    \E i \in 0..(Len(text) - Len(part)) :
        Capitals(SubSeq(text, i + 1, i + Len(part))) = Capitals(part)

\* The text begins with part, whatever the case.
BeginsWith(text, part) ==
    /\ Len(text) >= Len(part)
    /\ Capitals(SubSeq(text, 1, Len(part))) = Capitals(part)

\* C25: a toast call with a non-empty summary adds exactly one notification;
\* its summary contains the translation of the summary key and begins with
\* the translation of the prefix when one is given; its detail is the
\* translation of the message (texts compared whatever their case).
C25_ToastTexts ==
    lastOp = "toast" /\ Given(called.summary)
    => /\ Len(notifications) = 1
       /\ Contains(notifications[1].summary, T(called.summary.s))
       /\ Given(called.summaryPrefix)
          => BeginsWith(notifications[1].summary, T(called.summaryPrefix.s))
       /\ Given(called.message)
          => Capitals(notifications[1].detail) = Capitals(T(called.message.s))

\* C23: when loadStoredData has emitted the decoded entry and the owner has
\* applied it, localStorage holds no entry under the key of the route.
C23_RestoredEntryGone ==
    [][lastOp' = "loadStoredData" /\ emitted' # <<>> => storage' = Null]_vars

\* C24: when the entry cannot be decoded, loadStoredData emits nothing,
\* leaves the bound data alone, adds exactly one notification, of severity
\* warn, removes the entry and closes the prompt (the statement after the
\* try block is reached: no error left the handler).
C24_ParseFailureHandled ==
    [][/\ lastOp' = "loadStoredData"
       /\ Given(storage) /\ ~Decodable(storage.s)
       => /\ emitted' = <<>> /\ storedValue' = storedValue
          /\ Len(notifications') = 1
          /\ notifications'[1].severity = "warn"
          /\ storage' = Null
          /\ ~showLoadDialog']_vars

\* The cut-off entry was answered with "yes": one warning, no entry, no
\* prompt, the bound data untouched.
C24_Witness ==
    /\ lastOp = "loadStoredData" /\ emitted = <<>>
    /\ called # Null /\ called.summary = Txt(LoadKey)
    /\ Len(notifications) = 1 /\ notifications[1].severity = "warn"
    /\ storage = Null /\ ~showLoadDialog /\ storedValue = Obj(<<"y">>, <<>>)

\* C28: while the prompt is open, a change of the bound data leaves the
\* entry as it is, and "yes" emits what the entry of the mount decodes to.
C28_OfferedEntryKept ==
    [][showLoadDialog
       => /\ lastOp' = "storedValue" => storage' = storage
          /\ lastOp' = "loadStoredData" /\ emitted' # <<>>
             => emitted' = <<Parse(storage.s)>>]_vars

====
